---- MODULE Spec2Model ----
(***************************************************************************)
(* Response-recovery pipeline of the audio-transcription backend:          *)
(* retry_with_backoff, safe_extract_json, deduplicate_entries, the         *)
(* timestamp codec, merge_json_with_offset and the chunk orchestrator      *)
(* (transcribe_chunk / transcribe_chunks / transcribe_with_gemini), as     *)
(* written in src/backend/audio_diarization.py (word-level mode) and       *)
(* src/backend/multilingual_transcription.py, bengali_transcription.py     *)
(* (phrase-level mode).                                                    *)
(*                                                                         *)
(* Times are integers in milliseconds wherever the code holds an exact     *)
(* value; the codec's float arithmetic is modelled bit-exactly (Section    *)
(* "IEEE doubles").                                                        *)
(***************************************************************************)
EXTENDS Integers, Sequences, FiniteSets, TLC

VARIABLES
    \* ---- which module runs: "word" or "phrase"
    mode,
    \* ---- retry_with_backoff (one activation at a time: max_workers = 1)
    max_retries,    \* parameter max_retries
    base_delay,     \* parameter base_delay, in ms
    max_delay,      \* parameter max_delay, in ms
    attempt,        \* loop variable of `for attempt in range(max_retries)`
    rpc,            \* "idle" | "call" | "sleep" | "returned" | "raised"
    ncalls,         \* calls of func made by this activation
    last_exc,       \* the exception of the latest call that raised, "" before any
    nsleeps,        \* time.sleep calls made by this activation
    last_sleep,     \* the latest of them: [delay, jitter] in ms
    rres,           \* what the activation gave its caller: [kind, val]
    \* ---- the orchestrator (transcribe_with_gemini / transcribe_audio)
    audio_duration_ms,  \* len(audio)
    mpc,            \* main thread: "start" | "single" | "submit" | "collect" | "merge" | "shutdown" | "done"
    chunks_dict,    \* split_audio's result: chunk index -> [start_ms, end_ms]
    fut,            \* chunk index -> the future of its transcribe_chunk: [state, val]
    cur,            \* the chunk whose transcribe_chunk runs (or ran last), -1 before any
    yielded,        \* the chunk indices as_completed has yielded
    results,        \* the dict results, as <<idx, json_data>> pairs in insertion order
    exc,            \* the exception travelling up the main thread
    merges,         \* calls of merge_json_with_offset made
    outcome,        \* what the caller of the orchestrator got: [kind, val]
    nsplits,        \* calls of split_audio made
    nstarted,       \* calls of transcribe_chunk started
    \* ---- a function applied on its own: its argument, result, and which
    hpc,            \* "off" | "dedup" | "extract" | "merge" | "done"
    arg,
    ret

retryVars == <<max_retries, base_delay, max_delay, attempt, rpc, ncalls, last_exc, nsleeps, last_sleep, rres>>

orchVars == <<audio_duration_ms, mpc, chunks_dict, fut, cur, yielded, results, exc, merges, outcome,
              nsplits, nstarted>>

fnVars == <<hpc, arg, ret>>

vars == <<mode, retryVars, orchVars, fnVars>>

----------------------------------------------------------------------------
(* Bounds of the model *)

\* largest max_retries drawn when retry_with_backoff is checked on its own
MaxRetriesBound == 5
\* jitter is sampled at k / JitterSteps of its range, k = 0 .. JitterSteps
JitterSteps == 1
\* the longest audio drawn has MaxChunks chunks
MaxChunks == 2
\* the longest list given to deduplicate_entries
MaxItems == 3
\* the most objects in a reply given to safe_extract_json
MaxObjs == 2
\* the milliseconds after a whole second given to the timestamp codec
MaxMillis == 250

----------------------------------------------------------------------------
(* Small helpers *)

Min(a, b) == IF a <= b THEN a ELSE b

RECURSIVE Pow2(_)
Pow2(n) == IF n = 0 THEN 1 ELSE 2 * Pow2(n - 1)

NoneVal == [kind |-> "none"]

----------------------------------------------------------------------------
(* IEEE doubles.  A non-negative Python float x is held exactly, as         *)
(* <<s, a, b, c>> with x = s + a / 2^21 + b / 2^42 + c / 2^63 and           *)
(* 0 <= a, b, c < 2^21 (three limbs of LimbBits binary places).  Every      *)
(* value the codec computes from a timestamp with at most three decimals    *)
(* is a multiple of 2^-63.  Each float operation of the code is the exact   *)
(* operation followed by rounding to 53 significant bits, ties to even      *)
(* (IEEE 754 binary64, round-half-even, as CPython's float).                *)

\* binary places per limb; three limbs hold the fraction
LimbBits == 21
\* significand width of a double
Significand == 53

Pow2Tab == [k \in 0..30 |-> Pow2(k)]

Limb == Pow2Tab[LimbBits]

\* number of bits of n (0 for 0), n < 2^30
BitLen(n) == IF n = 0 THEN 0 ELSE CHOOSE k \in 1..30 : Pow2Tab[k - 1] <= n /\ n < Pow2Tab[k]

\* limbs after an exact operation, brought back below 2^21 each
Carry(s, a, b, c) ==
    LET b1 == b + c \div Limb
        a1 == a + b1 \div Limb
    IN <<s + a1 \div Limb, a1 % Limb, b1 % Limb, c % Limb>>

\* the number of low places (of the 63) that do not fit in 53 significant bits
CutOf(x) ==
    LET e == IF x[1] > 0 THEN BitLen(x[1]) - 1
             ELSE IF x[2] > 0 THEN BitLen(x[2]) - 1 - LimbBits
             ELSE IF x[3] > 0 THEN BitLen(x[3]) - 1 - 2 * LimbBits
             ELSE BitLen(x[4]) - 1 - 3 * LimbBits
    IN e - (Significand - 1) + 3 * LimbBits

\* round-half-even at the place `unit` of the last limb; odd says that the
\* bit kept just above the cut is set
RoundLast(x, sticky, unit, odd) ==
    LET low == x[4] % unit
        up == 2 * low > unit \/ (2 * low = unit /\ (sticky \/ odd))
    IN Carry(x[1], x[2], x[3], x[4] - low + (IF up THEN unit ELSE 0))

\* the same at the place `unit` of the middle limb
RoundMiddle(x, sticky, unit, odd) ==
    LET low == x[3] % unit
        up == 2 * low > unit \/ (2 * low = unit /\ (sticky \/ x[4] > 0 \/ odd))
    IN Carry(x[1], x[2], x[3] - low + (IF up THEN unit ELSE 0), 0)

RoundAt(x, sticky, cut) ==
    IF cut <= 0 THEN x
    ELSE IF cut < LimbBits
       THEN RoundLast(x, sticky, Pow2Tab[cut], (x[4] \div Pow2Tab[cut]) % 2 = 1)
    ELSE IF cut = LimbBits
       THEN RoundLast(x, sticky, Limb, x[3] % 2 = 1)
    ELSE IF cut < 2 * LimbBits
       THEN RoundMiddle(x, sticky, Pow2Tab[cut - LimbBits],
                        (x[3] \div Pow2Tab[cut - LimbBits]) % 2 = 1)
    ELSE RoundMiddle(x, sticky, Limb, x[2] % 2 = 1)

\* round to 53 significant bits, ties to even; sticky says that nonzero
\* places below 2^-63 were already cut off
Round53(x, sticky) == RoundAt(x, sticky, CutOf(x))

\* float(n) of an int
DFromInt(n) == <<n, 0, 0, 0>>

\* n / d of two ints as a float (also float("I.FFF") = I FFF / 10^3, which
\* Python rounds correctly); d <= 1000 and n = 0 or n / d >= 2^-10
DDivInt(n, d) ==
    LET a == ((n % d) * Limb) \div d
        ra == ((n % d) * Limb) % d
        b == (ra * Limb) \div d
        rb == (ra * Limb) % d
        c == (rb * Limb) \div d
        rc == (rb * Limb) % d
    IN Round53(<<n \div d, a, b, c>>, rc # 0)

\* x + y of two floats
DAdd(x, y) == Round53(Carry(x[1] + y[1], x[2] + y[2], x[3] + y[3], x[4] + y[4]), FALSE)

\* the exact product of a float and an int m <= 1000
MulExact(x, m) == Carry(x[1] * m, x[2] * m, x[3] * m, x[4] * m)

\* x * m of a float and an int
DMulInt(x, m) == Round53(MulExact(x, m), FALSE)

\* int(x) for x >= 0
DFloor(x) == x[1]

\* x % 1 (exact in floating point)
DFrac(x) == <<0, x[2], x[3], x[4]>>

\* x % m for an int m >= 1 (fmod is exact)
DMod(x, m) == <<x[1] % m, x[2], x[3], x[4]>>

\* x * 1000 rounded to the nearest integer, ties to even, on the exact value
\* of x: the digits '%.3f' prints
DRound3(x) ==
    LET p == MulExact(x, 1000)
        half == p[2] = Limb \div 2 /\ p[3] = 0 /\ p[4] = 0
        above == p[2] >= Limb \div 2 /\ ~half
    IN IF above \/ (half /\ p[1] % 2 = 1) THEN p[1] + 1 ELSE p[1]

----------------------------------------------------------------------------
(* Timestamp codec.  A timestamp string is the sequence of its ':'-separated *)
(* fields; a field is [i, fd, f]: the digits before the '.', the number of   *)
(* digits after it (0: no '.') and those digits as a number.  A field that   *)
(* is not a number has i = -1.  "01:02.345" is <<F(1), FD(2, 345)>>.  The    *)
(* field "nan", which int() rejects and float() reads as not-a-number, has   *)
(* i = -2.                                                                   *)

\* the modules: audio_diarization.py is word-level; multilingual_transcription.py
\* and bengali_transcription.py (the same codec, extractor and merger) phrase-level
Modes == {"word", "phrase"}

IntField(n) == [i |-> n, fd |-> 0, f |-> 0]

DecField(n, ms) == [i |-> n, fd |-> 3, f |-> ms]

RECURSIVE Pow10(_)
Pow10(n) == IF n = 0 THEN 1 ELSE 10 * Pow10(n - 1)

\* int(s) raises ValueError unless s is a plain integer literal
IntOk(p) == p.i >= 0 /\ p.fd = 0

\* the field "nan"
NanField == [i |-> -2, fd |-> 0, f |-> 0]

\* float("nan"), which is not a sequence of limbs
DNaN == <<-1, 0, 0, 0>>

IsNaN(x) == x[1] < 0

\* float(s) raises ValueError unless s is a number or "nan"
FloatOk(p) == p.i >= 0 \/ p = NanField

\* float(s): the double nearest to the decimal literal
FloatOf(p) ==
    IF p = NanField THEN DNaN
    ELSE IF p.fd = 0 THEN DFromInt(p.i)
    ELSE DDivInt(p.i * Pow10(p.fd) + p.f, Pow10(p.fd))

\* n + x of an int and a float; not-a-number stays so
DAddInt(n, x) == IF IsNaN(x) THEN DNaN ELSE DAdd(DFromInt(n), x)

ParseErr == [ok |-> FALSE, err |-> "ValueError"]

ParseOk(x) == [ok |-> TRUE, v |-> x]

\* audio_diarization.timestamp_to_seconds: 'MM:SS.mmm' only
timestamp_to_seconds_word(ts) ==
    IF Len(ts) # 2 THEN ParseErr                       \* minutes, rest = split(":")
    ELSE IF ~FloatOk(ts[2]) THEN ParseErr              \* float(rest)
    ELSE IF ~IntOk(ts[1]) THEN ParseErr                \* int(minutes)
    ELSE ParseOk(DAddInt(ts[1].i * 60, FloatOf(ts[2])))

\* multilingual_transcription / bengali_transcription.timestamp_to_seconds
timestamp_to_seconds_phrase(ts) ==
    IF Len(ts) = 4
       THEN IF \A k \in 1..4 : IntOk(ts[k])
               THEN ParseOk(DAdd(DFromInt(ts[1].i * 3600 + ts[2].i * 60 + ts[3].i),
                                 DDivInt(ts[4].i, 1000)))
               ELSE ParseErr
    ELSE IF Len(ts) = 3
       \* both branches on '.' in parts[2] compute the same expression
       THEN IF IntOk(ts[1]) /\ IntOk(ts[2]) /\ FloatOk(ts[3])
               THEN ParseOk(DAddInt(ts[1].i * 3600 + ts[2].i * 60, FloatOf(ts[3])))
               ELSE ParseErr
    ELSE IF Len(ts) = 2
       THEN IF IntOk(ts[1]) /\ FloatOk(ts[2])
               THEN ParseOk(DAddInt(ts[1].i * 60, FloatOf(ts[2])))
               ELSE ParseErr
    ELSE ParseErr                                      \* minutes, seconds = parts

timestamp_to_seconds(md, ts) ==
    IF md = "word" THEN timestamp_to_seconds_word(ts) ELSE timestamp_to_seconds_phrase(ts)

\* audio_diarization.seconds_to_timestamp: f"{minutes:02d}:{secs:06.3f}"
seconds_to_timestamp_word(x) ==
    LET minutes == DFloor(x) \div 60
        secs == DMod(x, 60)
        r == DRound3(secs)
    IN <<IntField(minutes), DecField(r \div 1000, r % 1000)>>

\* int((seconds % 1) * 1000)
MillisOf(x) == DFloor(DMulInt(DFrac(x), 1000))

\* multilingual / bengali seconds_to_timestamp: f"{hours:02d}:{minutes:02d}:{secs:02d}:{milliseconds:03d}"
seconds_to_timestamp_phrase(x) ==
    LET hours == DFloor(x) \div 3600
        minutes == (DFloor(x) % 3600) \div 60
        secs == DFloor(DMod(x, 60))
        milliseconds == MillisOf(x)
    IN <<IntField(hours), IntField(minutes), IntField(secs), IntField(milliseconds)>>

seconds_to_timestamp(md, x) ==
    IF md = "word" THEN seconds_to_timestamp_word(x) ELSE seconds_to_timestamp_phrase(x)

----------------------------------------------------------------------------
(* Entries.  A parsed JSON object (a dict) is a record: `has` is the set of  *)
(* its keys; start and end are timestamp strings; word, Text and text are    *)
(* strings, held as the sequence of their space-separated tokens ("a b" is   *)
(* <<"a", "b">>); eos is the value of end_of_speech.  speaker, language and  *)
(* emotion are only ever tested for presence.                                *)

NoTs == <<>>

Item(has, st, en, word, Text, text, eos) ==
    [has |-> has, start |-> st, end |-> en, word |-> word, Text |-> Text, text |-> text, eos |-> eos]

\* a word-level object as the prompt asks for it
WordItem(st, en, w) == Item({"start", "end", "word", "language"}, st, en, w, <<>>, <<>>, FALSE)

\* a phrase-level object as the prompt asks for it
PhraseFields == {"start", "end", "text", "speaker", "language", "emotion", "end_of_speech"}

PhraseItem(st, en, tx, eos) == Item(PhraseFields, st, en, <<>>, <<>>, tx, eos)

\* a key that looks at the start alone
KeyOfStartOnly(item) == <<item.start, item.start>>

\* key = (item.get('start'), item.get('end'))
KeyOf(item) == <<item.start, item.end>>

\* the words run together, no space between them
JoinWordsNoSpace(w1, w2) == w1 \o w2

\* f"{existing['word']} {item['word']}"; a string is the sequence of its
\* characters
JoinWords(w1, w2) == w1 \o <<" ">> \o w2

\* audio_diarization.deduplicate_entries, the body of `for item in items` on a
\* key already seen: the first kept entry with that start and end gets the
\* word appended when the words differ
MergeIntoExisting(dedup, item) ==
    IF \E k \in 1..Len(dedup) : dedup[k].start = item.start /\ dedup[k].end = item.end
       THEN LET k == CHOOSE j \in 1..Len(dedup) :
                        /\ dedup[j].start = item.start /\ dedup[j].end = item.end
                        /\ \A h \in 1..(j - 1) : ~(dedup[h].start = item.start /\ dedup[h].end = item.end)
            IN IF dedup[k].word # item.word
                  THEN [dedup EXCEPT ![k].word = JoinWords(dedup[k].word, item.word)]
                  ELSE dedup
       ELSE dedup

\* one iteration of the loop of audio_diarization.deduplicate_entries on
\* st = [seen, out]
DedupStepWord(st, item) ==
    IF KeyOf(item) \notin st.seen
       THEN [seen |-> st.seen \cup {KeyOf(item)}, out |-> Append(st.out, item)]
       ELSE [seen |-> st.seen, out |-> MergeIntoExisting(st.out, item)]

\* a later entry of a seen pair takes the place of the kept one
DedupStepPhraseKeepLast(st, item) ==
    IF KeyOf(item) \notin st.seen
       THEN [seen |-> st.seen \cup {KeyOf(item)}, out |-> Append(st.out, item)]
       ELSE [seen |-> st.seen,
             out |-> [k \in 1..Len(st.out) |->
                        IF KeyOf(st.out[k]) = KeyOf(item) THEN item ELSE st.out[k]]]

\* one iteration of the loop of multilingual / bengali deduplicate_entries
DedupStepPhrase(st, item) ==
    IF KeyOf(item) \notin st.seen
       THEN [seen |-> st.seen \cup {KeyOf(item)}, out |-> Append(st.out, item)]
       ELSE st

DedupStep(md, st, item) ==
    IF md = "word" THEN DedupStepWord(st, item) ELSE DedupStepPhrase(st, item)

RECURSIVE DedupLoop(_, _, _, _)
DedupLoop(md, items, k, st) ==
    IF k > Len(items) THEN st.out
    ELSE DedupLoop(md, items, k + 1, DedupStep(md, st, items[k]))

\* a deduplication that hands back its list last entry first
deduplicate_entries_reversed(md, items) ==
    LET out == DedupLoop(md, items, 1, [seen |-> {}, out |-> <<>>])
    IN [k \in 1..Len(out) |-> out[Len(out) + 1 - k]]

\* deduplicate_entries(items) of the module of mode md; items carry start and
\* end (safe_extract_json, the only caller, has checked that) and, in word
\* md, word
deduplicate_entries(md, items) == DedupLoop(md, items, 1, [seen |-> {}, out |-> <<>>])

----------------------------------------------------------------------------
(* safe_extract_json.  The model's reply is [fence, body]: fence says        *)
(* whether the text holds "```json" with a closing "```" ("closed"), without *)
(* one ("open": a truncated reply) or not at all ("none"); body is the text  *)
(* after the opening fence as a sequence of tokens: "[", "]", ",", a         *)
(* complete object {...} ("obj", with the dict it parses to), an object cut  *)
(* off before its closing brace ("cutobj") or prose ("text").  A complete    *)
(* object one of whose timestamp values lacks its closing quote is "objq_nl" *)
(* when the value is followed by ',' and a line break and "objq_in" when the *)
(* line goes on after the ','; its item is the dict the repaired text gives. *)

NoItem == Item({}, NoTs, NoTs, <<>>, <<>>, <<>>, FALSE)

Tok(t) == [t |-> t, item |-> NoItem]

ObjTok(item) == [t |-> "obj", item |-> item]

ExtractErr(msg) == [ok |-> FALSE, err |-> msg]

ExtractOk(v) == [ok |-> TRUE, v |-> v]

\* a text from '{' to its '}'
IsObject(tok) == tok.t \in {"obj", "objq_nl", "objq_in"}

\* audio_diarization only: re.sub(r'(\d+\.\d+),(\s*\n)', r'\1",\2', json_str),
\* before anything else is done to the text
FixQuotesBeforeNewline(md, toks) ==
    IF md = "word"
       THEN [k \in 1..Len(toks) |->
                IF toks[k].t = "objq_nl" THEN [toks[k] EXCEPT !.t = "obj"] ELSE toks[k]]
       ELSE toks

\* the elements of seq at the positions in keep, in order
SelectAt(seq, keep) ==
    [r \in 1..Cardinality(keep) |->
        seq[CHOOSE p \in keep : Cardinality({q \in keep : q < p}) = r - 1]]

\* a repair that closes the array where the text stops
RepairTruncationCloseOnly(toks) ==
    IF toks # <<>> /\ toks[Len(toks)].t = "]" THEN toks ELSE Append(toks, Tok("]"))

\* `if not json_str.endswith(']')`: cut after the last '}' and close the array
RepairTruncation(toks) ==
    IF toks # <<>> /\ toks[Len(toks)].t = "]" THEN toks
    ELSE IF \E k \in 1..Len(toks) : IsObject(toks[k])
       THEN LET last_complete == CHOOSE k \in 1..Len(toks) :
                    IsObject(toks[k]) /\ \A j \in (k + 1)..Len(toks) : ~IsObject(toks[j])
            IN Append(SubSeq(toks, 1, last_complete), Tok("]"))
       ELSE toks

\* `if not (json_str.startswith('[') and json_str.endswith(']'))`
WrapArray(toks) ==
    IF toks # <<>> /\ toks[1].t = "[" /\ toks[Len(toks)].t = "]" THEN toks
    ELSE <<Tok("[")>> \o toks \o <<Tok("]")>>

\* re.sub(r',\s*([\]}])', r'\1', json_str) between the objects
StripTrailingCommas(toks) ==
    SelectAt(toks, {k \in 1..Len(toks) :
                        ~(toks[k].t = "," /\ k < Len(toks) /\ toks[k + 1].t = "]")})

\* json.loads of an array of objects: '[' obj (',' obj)* ']' or '[]'
JsonLoads(toks) ==
    LET n == Len(toks)
        wellFormed ==
            /\ n >= 2 /\ toks[1].t = "[" /\ toks[n].t = "]"
            /\ (n = 2 \/ n % 2 = 1)
            /\ \A k \in 2..(n - 1) : toks[k].t = (IF k % 2 = 0 THEN "obj" ELSE ",")
    IN IF wellFormed
          THEN ExtractOk([k \in 1..((n - 1) \div 2) |-> toks[2 * k].item])
          ELSE ExtractErr("Failed to parse JSON")

\* re.sub(r'"(start|end)":\s*"(\d+:\d+\.\d+)([,\n])', r'"\1": "\2"\3', json_str)
AggressiveRepair(toks) ==
    [k \in 1..Len(toks) |->
        IF toks[k].t \in {"objq_nl", "objq_in"} THEN [toks[k] EXCEPT !.t = "obj"] ELSE toks[k]]

\* the try/except around json.loads; first is json.loads of toks, and parses
\* counts the calls of json.loads.  audio_diarization repairs and parses once
\* more, multilingual and bengali raise at once
LoadsWithRepair(md, toks, first) ==
    IF first.ok THEN [res |-> first, parses |-> 1]
    ELSE IF md = "word"
       THEN [res |-> IF JsonLoads(AggressiveRepair(toks)).ok
                        THEN JsonLoads(AggressiveRepair(toks))
                        ELSE ExtractErr("Failed to parse JSON after repair attempts"),
             parses |-> 2]
       ELSE [res |-> ExtractErr("Failed to parse JSON"), parses |-> 1]

\* the text handed to json.loads
PreparedText(md, content) ==
    StripTrailingCommas(WrapArray(RepairTruncation(FixQuotesBeforeNewline(md, content.body))))

\* a result of safe_extract_json with the number of json.loads calls it made
Parsed(r, n) ==
    IF r.ok THEN [ok |-> TRUE, v |-> r.v, parses |-> n]
            ELSE [ok |-> FALSE, err |-> r.err, parses |-> n]

\* audio_diarization: the body of `for item in json_data`; <<>> when skipped
ValidateWord(item) ==
    IF ~({"start", "end"} \subseteq item.has) THEN <<>>
    ELSE IF "word" \notin item.has /\ ("Text" \in item.has \/ "text" \in item.has)
       THEN <<[item EXCEPT !.has = item.has \cup {"word"},
                           !.word = IF item.Text # <<>> THEN item.Text ELSE item.text]>>
    ELSE IF "word" \notin item.has THEN <<>>
    ELSE <<item>>

\* multilingual / bengali: the body of `for item in json_data`
ValidatePhrase(item) == IF PhraseFields \subseteq item.has THEN <<item>> ELSE <<>>

\* a validation that lets every object through
ValidateItemKeepAll(md, item) == <<item>>

\* the validation of the module of mode md
ValidateItem(md, item) == IF md = "word" THEN ValidateWord(item) ELSE ValidatePhrase(item)

RECURSIVE ValidItems(_, _, _)
ValidItems(md, json_data, k) ==
    IF k > Len(json_data) THEN <<>>
    ELSE ValidateItem(md, json_data[k]) \o ValidItems(md, json_data, k + 1)

\* a check that lets the empty list through
NeverEmpty(valid_items) == FALSE

\* `if not valid_items`
NoValidItems(valid_items) == valid_items = <<>>

\* safe_extract_json(content)
safe_extract_json(md, content) ==
    IF content.fence = "none" THEN Parsed(ExtractErr("No JSON block found in content."), 0)
    ELSE LET json_data == LoadsWithRepair(md, PreparedText(md, content),
                                          JsonLoads(PreparedText(md, content)))
         IN IF ~json_data.res.ok THEN Parsed(json_data.res, json_data.parses)
            ELSE LET valid_items == ValidItems(md, json_data.res.v, 1)
                 IN IF NoValidItems(valid_items)
                       THEN Parsed(ExtractErr("No valid items found in JSON data"),
                                   json_data.parses)
                       ELSE Parsed(ExtractOk(deduplicate_entries(md, valid_items)),
                                   json_data.parses)

----------------------------------------------------------------------------
(* merge_json_with_offset *)

\* AUDIO_CHUNKING_OFFSET, in seconds
AUDIO_CHUNKING_OFFSET == 300

\* the items as the dict holds them, unsorted
ItemsAsInserted(data) == data

\* sorted(data.items(), key=lambda x: x[0]) of a dict held as the sequence of
\* its <<key, value>> pairs in insertion order
SortedItems(data) ==
    [r \in 1..Len(data) |->
        data[CHOOSE p \in 1..Len(data) :
                Cardinality({q \in 1..Len(data) : data[q][1] < data[p][1]}) = r - 1]]

\* start_sec + offset_seconds and end_sec + offset_seconds, formatted back;
\* int(seconds // 60) of not-a-number raises ValueError
ShiftParsed(md, entry, offset_seconds, st, en) ==
    IF ~st.ok \/ ~en.ok THEN ParseErr
    ELSE IF IsNaN(st.v) \/ IsNaN(en.v) THEN ParseErr
    ELSE ParseOk([entry EXCEPT
            !.start = seconds_to_timestamp(md, DAdd(st.v, DFromInt(offset_seconds))),
            !.end = seconds_to_timestamp(md, DAdd(en.v, DFromInt(offset_seconds)))])

\* the new entry of the inner loop: entry.copy() with start and end shifted;
\* [ok |-> FALSE] when timestamp_to_seconds raises
ShiftEntry(md, entry, offset_seconds) ==
    ShiftParsed(md, entry, offset_seconds,
                timestamp_to_seconds(md, entry.start), timestamp_to_seconds(md, entry.end))

\* the entries of one chunk with their times left as they are
ShiftChunkNoOffset(md, i, json_array, time_offset) ==
    [k \in 1..Len(json_array) |-> ShiftEntry(md, json_array[k], 0)]

\* the entries of one chunk, shifted by i * time_offset
ShiftChunk(md, i, json_array, time_offset) ==
    [k \in 1..Len(json_array) |-> ShiftEntry(md, json_array[k], i * time_offset)]

RECURSIVE MergeLoop(_, _, _, _)
MergeLoop(md, sorted_data, k, time_offset) ==
    IF k > Len(sorted_data) THEN <<>>
    ELSE ShiftChunk(md, sorted_data[k][1], sorted_data[k][2], time_offset)
            \o MergeLoop(md, sorted_data, k + 1, time_offset)

\* a ValueError raised in the loops leaves merge_json_with_offset
MergedOrError(shifted) ==
    IF \E k \in 1..Len(shifted) : ~shifted[k].ok
       THEN ParseErr
       ELSE ParseOk([k \in 1..Len(shifted) |-> shifted[k].v])

\* merge_json_with_offset(data, time_offset): the merged list, or the
\* ValueError of the first timestamp that does not parse
merge_json_with_offset(md, data, time_offset) ==
    MergedOrError(MergeLoop(md, SortedItems(data), 1, time_offset))

----------------------------------------------------------------------------
(* retry_with_backoff *)

\* default parameter values of retry_with_backoff
DefaultMaxRetries == 5
DefaultBaseDelay == 15000
DefaultMaxDelay == 300000

\* what func can raise (the remote call's errors)
CallErrors == {"ResourceExhausted", "ServiceUnavailable"}

\* the doubling without the cap
BackoffDelayUncapped(a, base, maxd) == base * Pow2(a)

\* delay = min(max_delay, base_delay * (2 ** attempt))
BackoffDelay(a, base, maxd) == Min(maxd, base * Pow2(a))

\* jitter = random.uniform(0, delay * 0.1), sampled
JitterChoices(delay) == {((delay \div 10) * k) \div JitterSteps : k \in 0..JitterSteps}

\* never giving up
IsLastAttemptNever(a, maxr) == FALSE

\* giving up one attempt early
IsLastAttemptEarly(a, maxr) == a >= maxr - 2

\* `if attempt == max_retries - 1: raise`
IsLastAttempt(a, maxr) == a = maxr - 1

\* `for attempt in range(max_retries)` on entry: with an empty range the loop
\* body never runs and the function falls off its end, returning None
EntryPc(maxr) == IF maxr > 0 THEN "call" ELSE "returned"

EntryRes(maxr) == IF maxr > 0 THEN NoneVal ELSE [kind |-> "ok", val |-> "None"]

NoSleep == [delay |-> 0, jitter |-> 0]

\* a call retry_with_backoff(func, maxr, base, maxd)
RetryEnter(maxr, base, maxd) ==
    /\ max_retries' = maxr
    /\ base_delay' = base
    /\ max_delay' = maxd
    /\ attempt' = 0
    /\ ncalls' = 0
    /\ last_exc' = ""
    /\ nsleeps' = 0
    /\ last_sleep' = NoSleep
    /\ rpc' = EntryPc(maxr)
    /\ rres' = EntryRes(maxr)

\* func(*args, **kwargs) returns v: `return func(...)`
RetryCallReturns(v) ==
    /\ rpc = "call"
    /\ ncalls' = ncalls + 1
    /\ rpc' = "returned"
    /\ rres' = [kind |-> "ok", val |-> v]
    /\ UNCHANGED <<max_retries, base_delay, max_delay, attempt, last_exc, nsleeps, last_sleep>>

\* func raises e: re-raised as it is on the last attempt, else on to the sleep
RetryCallRaises(e) ==
    /\ rpc = "call"
    /\ ncalls' = ncalls + 1
    /\ last_exc' = e
    /\ IF IsLastAttempt(attempt, max_retries)
          THEN rpc' = "raised" /\ rres' = [kind |-> "err", val |-> e]
          ELSE rpc' = "sleep" /\ rres' = rres
    /\ UNCHANGED <<max_retries, base_delay, max_delay, attempt, nsleeps, last_sleep>>

\* time.sleep(delay + jitter), then the next iteration of the loop
RetrySleep ==
    /\ rpc = "sleep"
    /\ LET delay == BackoffDelay(attempt, base_delay, max_delay)
       IN \E jitter \in JitterChoices(delay) :
             last_sleep' = [delay |-> delay, jitter |-> jitter]
    /\ nsleeps' = nsleeps + 1
    /\ attempt' = attempt + 1
    /\ rpc' = "call"
    /\ UNCHANGED <<max_retries, base_delay, max_delay, ncalls, last_exc, rres>>

----------------------------------------------------------------------------
(* The replies the remote call can give *)

\* the timestamp of second sec, millisecond ms as the prompt of the module
\* asks for it: MM:SS.mmm (word) or HH:MM:SS:mmm (phrase)
MkTs(md, sec, ms) ==
    IF md = "word"
       THEN <<IntField(sec \div 60), DecField(sec % 60, ms)>>
       ELSE <<IntField(sec \div 3600), IntField((sec % 3600) \div 60), IntField(sec % 60), IntField(ms)>>

\* an object with all the fields of its mode
MkItem(md, st, en, w, eos) ==
    IF md = "word" THEN WordItem(st, en, w) ELSE PhraseItem(st, en, w, eos)

Reply(fence, body) == [fence |-> fence, body |-> body]

\* o1 ',' o2 ',' ... on
Interleave(objs) ==
    [k \in 1..(2 * Len(objs) - 1) |-> IF k % 2 = 1 THEN ObjTok(objs[(k + 1) \div 2]) ELSE Tok(",")]

\* '[' o1 ',' o2 ... ']'
ArrayOf(objs) == <<Tok("[")>> \o Interleave(objs) \o <<Tok("]")>>

EntryA(md) == MkItem(md, MkTs(md, 1, 0), MkTs(md, 2, 500), <<"a">>, FALSE)

EntryB(md) == MkItem(md, MkTs(md, 2, 500), MkTs(md, 4, 2), <<"b">>, TRUE)

EntryC(md) == MkItem(md, MkTs(md, 0, 250), MkTs(md, 299, 999), <<"c">>, TRUE)

\* an entry timed past the end of a chunk of 300 s
EntryD(md) == MkItem(md, MkTs(md, 301, 0), MkTs(md, 302, 500), <<"d">>, FALSE)

\* the replies drawn for a chunk when the whole transcription runs
ChunkReplies(md) ==
    { Reply("none", <<>>),
      Reply("closed", ArrayOf(<<EntryA(md), EntryB(md)>>)),
      Reply("closed", ArrayOf(<<EntryC(md)>>)),
      Reply("closed", ArrayOf(<<EntryD(md)>>)),
      Reply("open", <<Tok("["), ObjTok(EntryA(md)), Tok(","), Tok("cutobj")>>) }

----------------------------------------------------------------------------
(* The chunk orchestrator *)

\* split_audio's chunk_duration_seconds (its default; no caller passes one)
chunk_duration_seconds == 300

EmptyFn == [i \in {} |-> 0]

\* a split that leaves out the shorter chunk at the end
split_audio_whole_chunks(duration_ms) ==
    LET chunk_duration_ms == chunk_duration_seconds * 1000
        n == duration_ms \div chunk_duration_ms
    IN [i \in 0..(n - 1) |->
          [start_ms |-> i * chunk_duration_ms, end_ms |-> (i + 1) * chunk_duration_ms]]

\* split_audio(audio_path): range(0, audio_duration_ms, chunk_duration_ms)
split_audio(duration_ms) ==
    LET chunk_duration_ms == chunk_duration_seconds * 1000
        n == (duration_ms + chunk_duration_ms - 1) \div chunk_duration_ms
    IN [i \in 0..(n - 1) |->
          [start_ms |-> i * chunk_duration_ms,
           end_ms |-> Min(i * chunk_duration_ms + chunk_duration_ms, duration_ms)]]

\* the branch taken only below the offset
IsSingleChunkBelow(duration_ms) == duration_ms < AUDIO_CHUNKING_OFFSET * 1000

\* `if duration <= AUDIO_CHUNKING_OFFSET`, duration = len(audio) / 1000.0
IsSingleChunk(duration_ms) == duration_ms <= AUDIO_CHUNKING_OFFSET * 1000

\* a dict that files every value under index 0
DictSetAtZero(d, key, val) ==
    IF \E k \in 1..Len(d) : d[k][1] = 0
       THEN [k \in 1..Len(d) |-> IF d[k][1] = 0 THEN <<0, val>> ELSE d[k]]
       ELSE Append(d, <<0, val>>)

\* results[idx] = json_data on a dict held in insertion order
DictSet(d, key, val) ==
    IF \E k \in 1..Len(d) : d[k][1] = key
       THEN [k \in 1..Len(d) |-> IF d[k][1] = key THEN <<key, val>> ELSE d[k]]
       ELSE Append(d, <<key, val>>)

\* what transcribe_chunk gives once retry_with_backoff(call_model) is over:
\* the error of the exhausted retries, or safe_extract_json(content) of the
\* reply, whose ValueError is not caught
ChunkResult(md, pc, res) ==
    IF pc = "raised" THEN [kind |-> "err", val |-> res.val]
    ELSE LET json_data == safe_extract_json(md, res.val)
         IN IF json_data.ok THEN [kind |-> "ok", val |-> json_data.v]
                            ELSE [kind |-> "err", val |-> json_data.err]

\* transcribe_with_gemini / transcribe_audio: the branch on the duration;
\* transcribe_chunks starts with split_audio and an empty results dict
Begin ==
    /\ mpc = "start"
    /\ IF IsSingleChunk(audio_duration_ms)
          THEN /\ mpc' = "single"
               /\ cur' = 0
               /\ RetryEnter(DefaultMaxRetries, DefaultBaseDelay, DefaultMaxDelay)
               /\ nstarted' = nstarted + 1
               /\ UNCHANGED <<chunks_dict, fut, nsplits>>
          ELSE /\ mpc' = "submit"
               /\ chunks_dict' = split_audio(audio_duration_ms)
               /\ fut' = [i \in DOMAIN chunks_dict' |-> [state |-> "new", val |-> NoneVal]]
               /\ nsplits' = nsplits + 1
               /\ UNCHANGED <<cur, retryVars, nstarted>>
    /\ UNCHANGED <<mode, audio_duration_ms, yielded, results, exc, merges, outcome, fnVars>>

\* executor.submit(transcribe_chunk, idx, ...) for the next idx of chunks_dict
Submit ==
    /\ mpc = "submit"
    /\ LET idx == CHOOSE i \in DOMAIN fut :
                    fut[i].state = "new" /\ \A j \in DOMAIN fut : fut[j].state = "new" => i <= j
       IN /\ fut' = [fut EXCEPT ![idx].state = "pending"]
          /\ mpc' = IF \A j \in DOMAIN fut : j # idx => fut[j].state # "new" THEN "collect" ELSE "submit"
    /\ UNCHANGED <<mode, retryVars, audio_duration_ms, chunks_dict, cur, yielded, results, exc,
                   merges, outcome, fnVars, nsplits, nstarted>>

\* a pool that starts the oldest work item though a run is under way
WorkerTakeWhileBusy ==
    /\ mpc \in {"submit", "collect", "shutdown"}
    /\ \E i \in DOMAIN fut : fut[i].state = "pending"
    /\ LET idx == CHOOSE i \in DOMAIN fut :
                    fut[i].state = "pending" /\ \A j \in DOMAIN fut : fut[j].state = "pending" => i <= j
       IN /\ fut' = [fut EXCEPT ![idx].state = "running"]
          /\ cur' = idx
    /\ RetryEnter(DefaultMaxRetries, DefaultBaseDelay, DefaultMaxDelay)
    /\ nstarted' = nstarted + 1
    /\ UNCHANGED <<mode, audio_duration_ms, mpc, chunks_dict, yielded, results, exc, merges,
                   outcome, fnVars, nsplits>>

\* the one worker thread takes the oldest work item and starts its
\* transcribe_chunk, which goes to retry_with_backoff(call_model)
WorkerTake ==
    /\ mpc \in {"submit", "collect", "shutdown"}
    /\ rpc = "idle"
    /\ \E i \in DOMAIN fut : fut[i].state = "pending"
    /\ LET idx == CHOOSE i \in DOMAIN fut :
                    fut[i].state = "pending" /\ \A j \in DOMAIN fut : fut[j].state = "pending" => i <= j
       IN /\ fut' = [fut EXCEPT ![idx].state = "running"]
          /\ cur' = idx
    /\ RetryEnter(DefaultMaxRetries, DefaultBaseDelay, DefaultMaxDelay)
    /\ nstarted' = nstarted + 1
    /\ UNCHANGED <<mode, audio_duration_ms, mpc, chunks_dict, yielded, results, exc, merges,
                   outcome, fnVars, nsplits>>

\* call_model() returns a reply
CallReturns ==
    /\ \E r \in ChunkReplies(mode) : RetryCallReturns(r)
    /\ UNCHANGED <<mode, orchVars, fnVars>>

\* call_model() raises
CallRaises ==
    /\ \E e \in CallErrors : RetryCallRaises(e)
    /\ UNCHANGED <<mode, orchVars, fnVars>>

\* the backoff sleep
Sleep ==
    /\ RetrySleep
    /\ UNCHANGED <<mode, orchVars, fnVars>>

\* the rest of transcribe_chunk; its return value or exception goes to the
\* caller (single chunk) or into the future (worker thread), and the locals
\* of retry_with_backoff are gone (the count of calls is kept for the record)
FinishChunk ==
    /\ mpc # "done"
    /\ rpc \in {"returned", "raised"}
    /\ LET res == ChunkResult(mode, rpc, rres)
       IN IF mpc = "single"
             THEN /\ outcome' = [kind |-> IF res.kind = "ok" THEN "returned" ELSE "raised",
                                 val |-> res.val]
                  /\ mpc' = "done"
                  /\ fut' = fut
             ELSE /\ fut' = [fut EXCEPT ![cur] = [state |-> "finished", val |-> res]]
                  /\ UNCHANGED <<outcome, mpc>>
    /\ rpc' = "idle"
    /\ attempt' = 0
    /\ last_exc' = ""
    /\ nsleeps' = 0
    /\ last_sleep' = NoSleep
    /\ rres' = NoneVal
    /\ UNCHANGED <<mode, max_retries, base_delay, max_delay, ncalls,
                   audio_duration_ms, chunks_dict, cur, yielded, results, exc, merges, fnVars, nsplits, nstarted>>

\* a collection loop that skips a failed chunk and goes on
CollectSkippingFailures ==
    /\ mpc = "collect"
    /\ \E i \in DOMAIN fut :
        /\ fut[i].state = "finished"
        /\ i \notin yielded
        /\ yielded' = yielded \cup {i}
        /\ results' = IF fut[i].val.kind = "ok" THEN DictSet(results, i, fut[i].val.val) ELSE results
        /\ mpc' = IF yielded' = DOMAIN fut THEN "merge" ELSE "collect"
        /\ exc' = exc
    /\ UNCHANGED <<mode, retryVars, audio_duration_ms, chunks_dict, fut, cur, merges, outcome, fnVars, nsplits, nstarted>>

\* one iteration of `for future in as_completed(future_to_idx)`:
\* future.result() gives (idx, json_data) or raises the chunk's exception
Collect ==
    /\ mpc = "collect"
    /\ \E i \in DOMAIN fut :
        /\ fut[i].state = "finished"
        /\ i \notin yielded
        /\ yielded' = yielded \cup {i}
        /\ IF fut[i].val.kind = "ok"
              THEN /\ results' = DictSet(results, i, fut[i].val.val)
                   /\ mpc' = IF yielded' = DOMAIN fut THEN "merge" ELSE "collect"
                   /\ exc' = exc
              ELSE /\ exc' = fut[i].val
                   /\ mpc' = "shutdown"
                   /\ results' = results
    /\ UNCHANGED <<mode, retryVars, audio_duration_ms, chunks_dict, fut, cur, merges, outcome, fnVars, nsplits, nstarted>>

\* final_json = merge_json_with_offset(results, AUDIO_CHUNKING_OFFSET); return
Merge ==
    /\ mpc = "merge"
    /\ merges' = merges + 1
    /\ LET final_json == merge_json_with_offset(mode, results, AUDIO_CHUNKING_OFFSET)
       IN outcome' = IF final_json.ok THEN [kind |-> "returned", val |-> final_json.v]
                                      ELSE [kind |-> "raised", val |-> final_json.err]
    /\ mpc' = "done"
    /\ UNCHANGED <<mode, retryVars, audio_duration_ms, chunks_dict, fut, cur, yielded, results, exc,
                   fnVars, nsplits, nstarted>>

\* an exit of the pool that drops the work items still queued or running
ShutdownAtOnce ==
    /\ mpc = "shutdown"
    /\ outcome' = [kind |-> "raised", val |-> exc.val]
    /\ mpc' = "done"
    /\ UNCHANGED <<mode, retryVars, audio_duration_ms, chunks_dict, fut, cur, yielded, results, exc,
                   merges, fnVars, nsplits, nstarted>>

\* the exception leaves the `with ThreadPoolExecutor` block: __exit__ waits
\* for every submitted work item, then the exception reaches the caller
Shutdown ==
    /\ mpc = "shutdown"
    /\ \A i \in DOMAIN fut : fut[i].state = "finished"
    /\ outcome' = [kind |-> "raised", val |-> exc.val]
    /\ mpc' = "done"
    /\ UNCHANGED <<mode, retryVars, audio_duration_ms, chunks_dict, fut, cur, yielded, results, exc,
                   merges, fnVars, nsplits, nstarted>>

\* the durations drawn: 1 ms, 20 s and a whole chunk past each chunk boundary
Durations ==
    {(k - 1) * chunk_duration_seconds * 1000 + d :
        k \in 1..MaxChunks, d \in {1, 20000, chunk_duration_seconds * 1000}}

RetryIdle ==
    /\ max_retries = DefaultMaxRetries
    /\ base_delay = DefaultBaseDelay
    /\ max_delay = DefaultMaxDelay
    /\ attempt = 0
    /\ rpc = "idle"
    /\ ncalls = 0
    /\ last_exc = ""
    /\ nsleeps = 0
    /\ last_sleep = NoSleep
    /\ rres = NoneVal

OrchIdle ==
    /\ audio_duration_ms = 0
    /\ mpc = "off"
    /\ chunks_dict = EmptyFn
    /\ fut = EmptyFn
    /\ cur = -1
    /\ yielded = {}
    /\ results = <<>>
    /\ exc = NoneVal
    /\ merges = 0
    /\ outcome = NoneVal
    /\ nsplits = 0
    /\ nstarted = 0

FnIdle == hpc = "off" /\ arg = NoneVal /\ ret = NoneVal

Init ==
    /\ mode \in Modes
    /\ RetryIdle
    /\ audio_duration_ms \in Durations
    /\ mpc = "start"
    /\ chunks_dict = EmptyFn
    /\ fut = EmptyFn
    /\ cur = -1
    /\ yielded = {}
    /\ results = <<>>
    /\ exc = NoneVal
    /\ merges = 0
    /\ outcome = NoneVal
    /\ nsplits = 0
    /\ nstarted = 0
    /\ FnIdle

Next ==
    \/ Begin
    \/ Submit
    \/ WorkerTake
    \/ CallReturns
    \/ CallRaises
    \/ Sleep
    \/ FinishChunk
    \/ Collect
    \/ Merge
    \/ Shutdown

Spec == Init /\ [][Next]_vars

\* the states where the worker thread holds a finished retry loop whose
\* result it has not yet handed over: FinishChunk is enabled exactly there
FinishChunkEnabled == mpc # "done" /\ rpc \in {"returned", "raised"}

\* the states where every future was collected and the merge is still to
\* run: Merge is enabled exactly there
MergeEnabled == mpc = "merge"

\* the transcription with its threads scheduled: a remote call that is under
\* way returns or raises, a sleep ends, and the main thread and the worker
\* thread take their next step. The weak fairness of FinishChunk and of
\* Merge is written out, with the enabling condition as a state predicate
Fairness ==
    /\ WF_vars(CallReturns \/ CallRaises)
    /\ WF_vars(Sleep)
    /\ WF_vars(Begin)
    /\ WF_vars(Submit)
    /\ WF_vars(WorkerTake)
    /\ ([]<>(~FinishChunkEnabled) \/ []<><<FinishChunk>>_vars)
    /\ WF_vars(Collect)
    /\ ([]<>(~MergeEnabled) \/ []<><<Merge>>_vars)
    /\ WF_vars(Shutdown)

SpecLive == Spec /\ Fairness

----------------------------------------------------------------------------
(* retry_with_backoff on its own, over its parameters *)

InitRetry ==
    /\ mode \in Modes
    /\ max_retries \in 0..MaxRetriesBound
    /\ base_delay \in {1000, DefaultBaseDelay}
    /\ max_delay \in {4000, DefaultMaxDelay}
    /\ attempt = 0
    /\ rpc = EntryPc(max_retries)
    /\ ncalls = 0
    /\ last_exc = ""
    /\ nsleeps = 0
    /\ last_sleep = NoSleep
    /\ rres = EntryRes(max_retries)
    /\ OrchIdle
    /\ FnIdle

NextRetry ==
    \/ CallReturns
    \/ CallRaises
    \/ Sleep

SpecRetry == InitRetry /\ [][NextRetry]_vars

----------------------------------------------------------------------------
(* Claims on retry_with_backoff, under SpecRetry *)

\* C2: with max_retries >= 1 and func raising on every call, func is called
\* exactly max_retries times - never more, and the function is still running
\* while fewer were made - and then the caller gets the error the last call
\* raised, as it was raised.
C2_RaisesAfterMaxRetries ==
    max_retries >= 1 =>
        /\ ncalls <= max_retries
        /\ rpc \in {"call", "sleep"} => ncalls < max_retries
        /\ rpc = "raised" =>
              /\ ncalls = max_retries
              /\ rres = [kind |-> "err", val |-> last_exc]

\* C2 witness: five calls, all raising, and the last error with the caller
C2_Witness ==
    /\ rpc = "raised"
    /\ max_retries = DefaultMaxRetries
    /\ ncalls = DefaultMaxRetries
    /\ rres.val = "ServiceUnavailable"

\* C3: the sleep after failing attempt a (from 0), a not the last, lasts
\* d + j with d = min(max_delay, base_delay * 2^a) and 0 <= j <= d / 10; there
\* is one sleep between two calls and none after the last attempt, so
\* max_retries - 1 sleeps when every call raises; with the default parameters
\* the delays are 15, 30, 60 and 120 s.
C3_BackoffSleeps ==
    /\ nsleeps >= 1 =>
          /\ last_sleep.delay = Min(max_delay, base_delay * 2^(nsleeps - 1))
          /\ 0 <= last_sleep.jitter
          /\ 10 * last_sleep.jitter <= last_sleep.delay
    /\ rpc = "call" => nsleeps = ncalls
    /\ rpc \in {"sleep", "raised"} => nsleeps = ncalls - 1
    /\ rpc = "raised" => nsleeps = max_retries - 1
    /\ (nsleeps >= 1 /\ base_delay = 15000 /\ max_delay = 300000 /\ nsleeps <= 4) =>
          last_sleep.delay = <<15000, 30000, 60000, 120000>>[nsleeps]

\* C3 witness: the fourth and last sleep of an always-failing run with a
\* capped delay and a jitter above zero, and no sleep after the fifth failure
C3_Witness ==
    /\ rpc = "raised"
    /\ max_retries = 5
    /\ nsleeps = 4
    /\ last_sleep.delay = max_delay
    /\ last_sleep.delay < base_delay * 8
    /\ last_sleep.jitter > 0

----------------------------------------------------------------------------
(* Claims on the orchestrator, under Spec *)

\* the chunks whose pipeline has failed
FailedChunks == {i \in DOMAIN fut : fut[i].state = "finished" /\ fut[i].val.kind = "err"}

\* C1: a chunk whose reply the extractor refuses gets its remote call issued
\* again, so a chunk has failed only when max_retries calls were made for it.
C1_ExtractorFailureRetried ==
    /\ (cur \in FailedChunks) => ncalls = max_retries
    /\ (mpc = "done" /\ DOMAIN fut = {} /\ outcome.kind = "raised") => ncalls = max_retries

\* C4: with several chunks, merge_json_with_offset is called only when every
\* chunk of split_audio has its result in the results dict; once a chunk has
\* failed it is never called, nothing is returned, and what the caller gets
\* is the exception of a failed chunk.
C4_AllOrNothing ==
    DOMAIN fut # {} =>
        /\ merges <= 1
        /\ merges = 1 =>
              /\ DOMAIN fut = DOMAIN chunks_dict
              /\ \A i \in DOMAIN chunks_dict :
                    /\ fut[i].state = "finished" /\ fut[i].val.kind = "ok"
                    /\ \E k \in 1..Len(results) : results[k] = <<i, fut[i].val.val>>
        /\ outcome.kind = "returned" => merges = 1
        /\ FailedChunks # {} =>
              /\ merges = 0
              /\ mpc # "merge"
              /\ outcome.kind # "returned"
              /\ mpc = "done" =>
                    /\ outcome.kind = "raised"
                    /\ \E i \in FailedChunks : outcome.val = fut[i].val.val

\* C4 witness: chunk 0 is in the results dict, chunk 1 has failed, and the
\* caller got the failure with no merge made
C4_Witness ==
    /\ mpc = "done"
    /\ DOMAIN fut = {0, 1}
    /\ results # <<>>
    /\ 1 \in FailedChunks
    /\ merges = 0
    /\ outcome.kind = "raised"

\* the entries of the chunks from i on, each chunk shifted by its index times
\* the offset, in ascending chunk index
RECURSIVE TimelineFrom(_)
TimelineFrom(i) ==
    IF i \notin DOMAIN fut THEN <<>>
    ELSE [k \in 1..Len(fut[i].val.val) |->
             ShiftEntry(mode, fut[i].val.val[k], i * AUDIO_CHUNKING_OFFSET).v]
         \o TimelineFrom(i + 1)

\* C5: the merged timeline is the entries of chunk 0, then those of chunk 1,
\* and so on in ascending chunk index, whatever the order in which the chunks
\* were yielded and put into the results dict.
C5_AscendingChunkOrder ==
    (mpc = "done" /\ DOMAIN fut # {} /\ outcome.kind = "returned") =>
        outcome.val = TimelineFrom(0)

\* C5 witness: chunk 1 went into the results dict before chunk 0, with
\* entries other than those of chunk 0, and the timeline was returned
C5_Witness ==
    /\ mpc = "done"
    /\ outcome.kind = "returned"
    /\ Len(results) = 2
    /\ results[1][1] = 1
    /\ results[2][1] = 0
    /\ results[1][2] # results[2][2]

----------------------------------------------------------------------------
(* deduplicate_entries on its own, over lists of validated entries *)

\* all sequences over S of length at most n
RECURSIVE SeqsUpTo(_, _)
SeqsUpTo(S, n) ==
    IF n = 0 THEN {<<>>}
    ELSE LET shorter == SeqsUpTo(S, n - 1)
         IN shorter \cup {Append(q, x) : q \in {r \in shorter : Len(r) = n - 1}, x \in S}

\* entries as safe_extract_json validates them, over three (start, end) pairs
\* of which two share their start
DedupPool(md) ==
    LET t1 == MkTs(md, 1, 0)
        t2 == MkTs(md, 2, 500)
        t3 == MkTs(md, 4, 2)
    IN { MkItem(md, t1, t2, <<"a">>, FALSE),
         MkItem(md, t1, t2, <<"b">>, TRUE),
         MkItem(md, t1, t2, <<"a", " ", "b">>, FALSE),
         MkItem(md, t1, t3, <<"a">>, FALSE),
         MkItem(md, t2, t3, <<"b">>, FALSE) }

InitDedup ==
    /\ mode \in Modes
    /\ RetryIdle
    /\ OrchIdle
    /\ hpc = "dedup"
    /\ arg \in SeqsUpTo(DedupPool(mode), MaxItems)
    /\ ret = NoneVal

\* deduplicated = deduplicate_entries(items)
CallDedup ==
    /\ hpc = "dedup"
    /\ ret' = deduplicate_entries(mode, arg)
    /\ hpc' = "deduped"
    /\ UNCHANGED <<mode, retryVars, orchVars, arg>>

NextDedup == CallDedup

SpecDedup == InitDedup /\ [][NextDedup]_vars

\* the positions of a list that hold the first entry of their (start, end) pair
FirstPositions(items) ==
    {k \in 1..Len(items) :
        \A h \in 1..(k - 1) : ~(items[h].start = items[k].start /\ items[h].end = items[k].end)}

\* the positions after k of the entries with the pair of items[k]
LaterSame(items, k) ==
    {h \in (k + 1)..Len(items) : items[h].start = items[k].start /\ items[h].end = items[k].end}

\* C7: the list deduplicate_entries returns has no two entries with the same
\* (start, end) pair, and has an entry for a pair exactly when the input has
\* one - so exactly one entry for each distinct pair of the input.
C7_OnePerPair ==
    hpc = "deduped" =>
        /\ \A j, k \in 1..Len(ret) :
              (ret[j].start = ret[k].start /\ ret[j].end = ret[k].end) => j = k
        /\ {<<ret[k].start, ret[k].end>> : k \in 1..Len(ret)}
              = {<<arg[k].start, arg[k].end>> : k \in 1..Len(arg)}

\* C7 witness: a list with a repeated pair and a second pair of the same
\* start has been deduplicated to two entries
C7_Witness ==
    /\ hpc = "deduped"
    /\ Len(arg) = 3
    /\ arg[1].start = arg[2].start /\ arg[1].end = arg[2].end
    /\ arg[3].start = arg[1].start /\ arg[3].end # arg[1].end
    /\ Len(ret) = 2

\* the word the kept entry has once the entries at the positions `later`
\* (in list order) were processed against it
RECURSIVE WordAfter(_, _, _)
WordAfter(word, items, later) ==
    IF later = {} THEN word
    ELSE LET h == CHOOSE x \in later : \A y \in later : x <= y
         IN WordAfter(IF items[h].word # word THEN word \o <<" ">> \o items[h].word ELSE word,
                      items, later \ {h})

\* C8: in word-level mode the result holds, in input order, the first entry
\* of each (start, end) pair; each later entry of the pair is gone, its word
\* appended after one space to the kept word when it differs from the kept
\* word as it stands, the kept word unchanged otherwise; "a" then "b" on one
\* pair give one entry with word "a b".
C8_WordMerge ==
    (hpc = "deduped" /\ mode = "word") =>
        LET firsts == SelectAt(arg, FirstPositions(arg))
            at == SelectAt([k \in 1..Len(arg) |-> k], FirstPositions(arg))
        IN /\ Len(ret) = Len(firsts)
           /\ \A j \in 1..Len(ret) :
                 ret[j] = [firsts[j] EXCEPT
                              !.word = WordAfter(firsts[j].word, arg, LaterSame(arg, at[j]))]
           /\ (Len(arg) = 2 /\ arg[1].word = <<"a">> /\ arg[2].word = <<"b">>
                 /\ arg[1].start = arg[2].start /\ arg[1].end = arg[2].end)
                => (Len(ret) = 1 /\ ret[1].word = <<"a", " ", "b">>)

\* C8 witness: the words "a" and "b" on one pair came out as one entry "a b"
C8_Witness ==
    /\ hpc = "deduped"
    /\ mode = "word"
    /\ Len(arg) = 2
    /\ arg[1].word = <<"a">> /\ arg[2].word = <<"b">>
    /\ arg[1].start = arg[2].start /\ arg[1].end = arg[2].end
    /\ Len(ret) = 1
    /\ ret[1].word = <<"a", " ", "b">>

\* C9: in phrase-level mode the result is the first entry of each
\* (start, end) pair, every field as it was, in input order; the later
\* entries of a pair are dropped whatever their text.
C9_PhraseKeepFirst ==
    (hpc = "deduped" /\ mode = "phrase") =>
        ret = SelectAt(arg, FirstPositions(arg))

\* C9 witness: two phrase entries of one pair with different texts came out
\* as the first alone
C9_Witness ==
    /\ hpc = "deduped"
    /\ mode = "phrase"
    /\ Len(arg) = 2
    /\ arg[1].start = arg[2].start /\ arg[1].end = arg[2].end
    /\ arg[1].text # arg[2].text
    /\ ret = <<arg[1]>>

----------------------------------------------------------------------------
(* safe_extract_json on its own, over replies *)

\* the objects a reply can hold: complete ones, one whose start is after its
\* end, one of no duration, and ones that lack a field
ObjPool(md) ==
    LET t1 == MkTs(md, 1, 0)
        t2 == MkTs(md, 2, 500)
        good == MkItem(md, t1, t2, <<"a">>, FALSE)
    IN { good,
         MkItem(md, t1, t2, <<"b">>, TRUE),
         MkItem(md, t2, t1, <<"a">>, FALSE),
         MkItem(md, t2, t2, <<"b">>, FALSE),
         [good EXCEPT !.has = good.has \ {"end"}, !.end = NoTs],
         [good EXCEPT !.has = good.has \ {"word", "emotion"}, !.word = <<>>],
         [good EXCEPT !.has = (good.has \ {"word", "emotion"}) \cup {"Text"},
                      !.word = <<>>, !.Text = <<"c">>] }

\* what can follow the objects of a reply
Tails == { <<>>, <<Tok(",")>>, <<Tok(","), Tok("cutobj")>>, <<Tok("cutobj")>>, <<Tok("text")>> }

\* replies with an object whose timestamp lacks its closing quote, after
\* nothing or a complete object, before the end of the array or a cut
UnquotedReplies(md) ==
    LET good == MkItem(md, MkTs(md, 1, 0), MkTs(md, 2, 500), <<"a">>, FALSE)
        next == MkItem(md, MkTs(md, 2, 500), MkTs(md, 4, 2), <<"b">>, TRUE)
    IN { Reply(fence, <<Tok("[")>> \o before \o <<[t |-> kind, item |-> next]>> \o tail) :
            fence \in {"open", "closed"},
            before \in {<<>>, <<ObjTok(good), Tok(",")>>},
            kind \in {"objq_nl", "objq_in"},
            tail \in {<<Tok("]")>>, <<Tok(","), Tok("cutobj")>>, <<Tok("text")>>} }

Replies(md) ==
    { Reply(fence, (IF open THEN <<Tok("[")>> ELSE <<>>) \o Interleave(objs) \o tail
                   \o (IF close THEN <<Tok("]")>> ELSE <<>>)) :
        fence \in {"none", "open", "closed"},
        open \in BOOLEAN, close \in BOOLEAN,
        objs \in SeqsUpTo(ObjPool(md), MaxObjs),
        tail \in Tails }
    \cup UnquotedReplies(md)

InitExtract ==
    /\ mode \in Modes
    /\ RetryIdle
    /\ OrchIdle
    /\ hpc = "extract"
    /\ arg \in Replies(mode)
    /\ ret = NoneVal

\* json_data = safe_extract_json(content)
CallExtract ==
    /\ hpc = "extract"
    /\ ret' = safe_extract_json(mode, arg)
    /\ hpc' = "extracted"
    /\ UNCHANGED <<mode, retryVars, orchVars, arg>>

\* merge_json_with_offset of a results dict whose chunk 1 holds the list just
\* extracted
CallMergeExtracted ==
    /\ hpc = "extracted"
    /\ ret.ok
    /\ ret' = [extracted |-> ret.v,
               merged |-> merge_json_with_offset(mode, <<<<1, ret.v>>>>, AUDIO_CHUNKING_OFFSET)]
    /\ hpc' = "extracted_merged"
    /\ UNCHANGED <<mode, retryVars, orchVars, arg>>

NextExtract == CallExtract \/ CallMergeExtracted

SpecExtract == InitExtract /\ [][NextExtract]_vars

\* the time a timestamp text denotes, in ms (MM:SS.mmm or HH:MM:SS:mmm)
TsMillis(ts) ==
    IF Len(ts) = 2 THEN ts[1].i * 60000 + ts[2].i * 1000 + ts[2].f
    ELSE ts[1].i * 3600000 + ts[2].i * 60000 + ts[3].i * 1000 + ts[4].i

\* C10: every entry safe_extract_json returns has its start strictly before
\* its end; an object whose start is not before its end is dropped.
C10_StartBeforeEnd ==
    (hpc = "extracted" /\ ret.ok) =>
        \A k \in 1..Len(ret.v) : TsMillis(ret.v[k].start) < TsMillis(ret.v[k].end)

----------------------------------------------------------------------------
(* merge_json_with_offset on its own, over results dicts *)

\* the entries of a chunk: times within the chunk, start before end
EntryPool(md) ==
    { MkItem(md, MkTs(md, 0, 0), MkTs(md, 1, 1), <<"a">>, FALSE),
      MkItem(md, MkTs(md, 1, 1), MkTs(md, 2, 500), <<"b">>, FALSE),
      MkItem(md, MkTs(md, 2, 500), MkTs(md, 299, 999), <<"c">>, TRUE) }

\* what safe_extract_json can give for a chunk: one or two entries
ChunkArrays(md) == SeqsUpTo(EntryPool(md), 2) \ {<<>>}

\* the results dict of n chunks, in every insertion order
ResultDicts(md, n) ==
    { [k \in 1..n |-> <<order[k], arrays[k]>>] :
        order \in {f \in [1..n -> 0..(n - 1)] : \A j, k \in 1..n : f[j] = f[k] => j = k},
        arrays \in [1..n -> ChunkArrays(md)] }

\* the results of the three chunks of an audio of 620 s, two entries each,
\* the last entry of chunk 0 starting 1 ms before the chunk ends
ChunksOf620(md) ==
    << <<MkItem(md, MkTs(md, 0, 0), MkTs(md, 1, 1), <<"a">>, FALSE),
         MkItem(md, MkTs(md, 299, 999), MkTs(md, 300, 0), <<"b">>, FALSE)>>,
       <<MkItem(md, MkTs(md, 0, 0), MkTs(md, 2, 500), <<"c">>, FALSE),
         MkItem(md, MkTs(md, 2, 500), MkTs(md, 299, 999), <<"d">>, FALSE)>>,
       <<MkItem(md, MkTs(md, 0, 0), MkTs(md, 1, 1), <<"e">>, FALSE),
         MkItem(md, MkTs(md, 1, 1), MkTs(md, 19, 999), <<"f">>, TRUE)>> >>

\* that results dict, filled in chunk order and in the reverse order
ResultsOf620(md) ==
    { [k \in 1..3 |-> <<k - 1, ChunksOf620(md)[k]>>],
      [k \in 1..3 |-> <<3 - k, ChunksOf620(md)[4 - k]>>] }

InitMerge ==
    /\ mode \in Modes
    /\ RetryIdle
    /\ OrchIdle
    /\ hpc = "merge"
    /\ arg \in UNION {ResultDicts(mode, n) : n \in 1..MaxChunks} \cup ResultsOf620(mode)
    /\ ret = NoneVal

\* final_json = merge_json_with_offset(results, AUDIO_CHUNKING_OFFSET)
CallMerge ==
    /\ hpc = "merge"
    /\ ret' = merge_json_with_offset(mode, arg, AUDIO_CHUNKING_OFFSET)
    /\ hpc' = "merged"
    /\ UNCHANGED <<mode, retryVars, orchVars, arg>>

NextMerge == CallMerge

SpecMerge == InitMerge /\ [][NextMerge]_vars

\* an entry with its start and end as times in ms, moved by shift_ms
Timed(entry, shift_ms) ==
    [entry EXCEPT !.start = TsMillis(entry.start) + shift_ms,
                  !.end = TsMillis(entry.end) + shift_ms]

\* the positions <<c, k>> of the entries of a results dict
EntryPositions(data) ==
    {p \in (1..Len(data)) \X (1..2) : p[2] <= Len(data[p[1]][2])}

\* the entry at a position, moved by its chunk index times the offset
ShiftedExactly(data, p) ==
    Timed(data[p[1]][2][p[2]], data[p[1]][1] * AUDIO_CHUNKING_OFFSET * 1000)

\* C6: merge_json_with_offset gives, for every chunk index i and every entry
\* e of chunk i, exactly one entry with the times of e.start and e.end plus
\* i * offset seconds and e's other fields, and gives nothing else: as many
\* entries as the chunks hold together.
C6_ShiftByChunkOffset ==
    hpc = "merged" =>
        /\ ret.ok
        /\ Len(ret.v) = Cardinality(EntryPositions(arg))
        /\ \A p \in EntryPositions(arg) :
              Cardinality({q \in EntryPositions(arg) : ShiftedExactly(arg, q) = ShiftedExactly(arg, p)})
                = Cardinality({k \in 1..Len(ret.v) : Timed(ret.v[k], 0) = ShiftedExactly(arg, p)})

----------------------------------------------------------------------------
(* Further claims on the orchestrator, under Spec *)

\* the positions of the timeline returned whose entry has end_of_speech true
EosPositions == {k \in 1..Len(outcome.val) : outcome.val[k].eos}

\* C11: in the timeline returned in phrase-level mode end_of_speech is true
\* on at most one entry, and only on the entry that ends last - also when
\* the recording was split and each chunk's reply marks its own last entry.
C11_OneEndOfSpeech ==
    (mpc = "done" /\ mode = "phrase" /\ outcome.kind = "returned") =>
        /\ Cardinality(EosPositions) <= 1
        /\ \A k \in EosPositions : \A j \in 1..Len(outcome.val) :
              TsMillis(outcome.val[j].end) <= TsMillis(outcome.val[k].end)


\* C12, what holds in every state: an audio of at most 300 s gets no call of
\* split_audio, no future, no merge and one transcribe_chunk, on chunk index
\* 0; a longer audio gets one call of split_audio and a future per chunk.
C12_PathByDuration ==
    mpc # "start" =>
        IF audio_duration_ms <= 300 * 1000
           THEN /\ mpc \in {"single", "done"}
                /\ nsplits = 0 /\ chunks_dict = EmptyFn /\ fut = EmptyFn
                /\ merges = 0 /\ results = <<>>
                /\ nstarted = 1 /\ cur = 0
           ELSE /\ mpc \notin {"single"}
                /\ nsplits = 1
                /\ DOMAIN chunks_dict # {} /\ DOMAIN fut = DOMAIN chunks_dict

\* C12, the step that ends the single-chunk path: the caller gets what
\* safe_extract_json gave for the reply, its timestamps as they were.
C12_NoOffsetStep ==
    (mpc = "single" /\ mpc' = "done" /\ rpc = "returned") =>
        LET json_data == safe_extract_json(mode, rres.val)
        IN outcome' = IF json_data.ok THEN [kind |-> "returned", val |-> json_data.v]
                                      ELSE [kind |-> "raised", val |-> json_data.err]

\* C12: with a duration of at most the chunk offset (300 s) the orchestrator
\* runs exactly one recovery pipeline, on the whole audio with chunk index 0,
\* calls no splitter and applies no offset; with a longer duration it takes
\* the splitting path.
C12_SingleChunkPath == [](C12_PathByDuration) /\ [][C12_NoOffsetStep]_vars

\* C12 witness: an audio of exactly 300 s was transcribed by one pipeline
\* with no split, and its timeline returned
C12_Witness ==
    /\ mpc = "done"
    /\ audio_duration_ms = 300000
    /\ outcome.kind = "returned"
    /\ outcome.val[1].start = MkTs(mode, 1, 0)
    /\ nstarted = 1
    /\ nsplits = 0

----------------------------------------------------------------------------
(* split_audio on its own, over audio lengths *)

\* the lengths drawn, in ms: up to MaxChunks whole chunks and a rest
SplitLengths ==
    {k * chunk_duration_seconds * 1000 + d :
        k \in 0..MaxChunks,
        d \in {1, 999, 20000, 299999} \cup {j * 12500 : j \in 1..24}}

InitSplit ==
    /\ mode \in Modes
    /\ RetryIdle
    /\ OrchIdle
    /\ hpc = "split"
    /\ arg \in SplitLengths
    /\ ret = NoneVal

\* chunks_dict = split_audio(audio_path)
CallSplit ==
    /\ hpc = "split"
    /\ ret' = split_audio(arg)
    /\ hpc' = "split_done"
    /\ UNCHANGED <<mode, retryVars, orchVars, arg>>

NextSplit == CallSplit

SpecSplit == InitSplit /\ [][NextSplit]_vars

\* the length of chunk i of a split, in ms
ChunkMs(chunks, i) == chunks[i].end_ms - chunks[i].start_ms

RECURSIVE SumChunkMs(_, _)
SumChunkMs(chunks, n) == IF n = 0 THEN 0 ELSE ChunkMs(chunks, n - 1) + SumChunkMs(chunks, n - 1)

\* C13: for an audio of length D above the chunk length C split_audio gives
\* ceil(D / C) chunks, indexed 0 .. ceil(D / C) - 1 with no gap; each chunk
\* but the last lasts C, the last lasts more than 0 and at most C, and the
\* lengths add up to D; 620 s at C = 300 s give 300, 300 and 20 s.
C13_SplitCoversAudio ==
    (hpc = "split_done" /\ arg > 300 * 1000) =>
        LET n == Cardinality(DOMAIN ret)
            C == 300 * 1000
        IN /\ DOMAIN ret = 0..(n - 1)
           /\ (n - 1) * C < arg /\ arg <= n * C
           /\ \A i \in 0..(n - 2) : ChunkMs(ret, i) = C
           /\ 0 < ChunkMs(ret, n - 1) /\ ChunkMs(ret, n - 1) <= C
           /\ \A i \in 1..(n - 1) : ret[i].start_ms = ret[i - 1].end_ms
           /\ ret[0].start_ms = 0
           /\ SumChunkMs(ret, n) = arg
           /\ arg = 620000 =>
                 <<ChunkMs(ret, 0), ChunkMs(ret, 1), ChunkMs(ret, 2)>> = <<300000, 300000, 20000>>

\* C13 witness: 620 s were split into three chunks, the last of 20 s
C13_Witness ==
    /\ hpc = "split_done"
    /\ arg = 620000
    /\ DOMAIN ret = {0, 1, 2}
    /\ ChunkMs(ret, 2) = 20000

----------------------------------------------------------------------------
(* Further claims on safe_extract_json, under SpecExtract *)

\* the fields an object must have in its mode (word-level: word or an alias)
HasRequired(md, item) ==
    IF md = "word"
       THEN {"start", "end"} \subseteq item.has /\ item.has \cap {"word", "Text", "text"} # {}
       ELSE {"start", "end", "text", "speaker", "language", "emotion", "end_of_speech"}
               \subseteq item.has

\* the complete objects of a reply, in order
CompleteObjects(body) ==
    LET at == {k \in 1..Len(body) : body[k].t = "obj"}
    IN [r \in 1..Cardinality(at) |->
           body[CHOOSE p \in at : Cardinality({q \in at : q < p}) = r - 1].item]

\* objects that have their required fields, the word under its own name, and
\* pairwise different (start, end) pairs
PlainObjects(md, objs) ==
    /\ \A k \in 1..Len(objs) : HasRequired(md, objs[k]) /\ (md = "word" => "word" \in objs[k].has)
    /\ \A j, k \in 1..Len(objs) :
          (objs[j].start = objs[k].start /\ objs[j].end = objs[k].end) => j = k

\* a reply without closing fence whose array stops inside an object
CutInObject(content) ==
    /\ content.fence = "open"
    /\ LET objs == CompleteObjects(content.body)
       IN content.body = <<Tok("[")>> \o Interleave(objs)
                            \o (IF objs = <<>> THEN <<>> ELSE <<Tok(",")>>) \o <<Tok("cutobj")>>

\* C14 as worded: a reply whose array is cut off inside an object gives
\* exactly the objects complete before the cut, in order, and nothing for the
\* incomplete one - whatever the number of complete objects.
C14_CutAnyNumber ==
    (hpc = "extracted" /\ CutInObject(arg) /\ PlainObjects(mode, CompleteObjects(arg.body))) =>
        (ret.ok /\ ret.v = CompleteObjects(arg.body))

\* C14: a reply whose array is cut off inside an object, after at least one
\* complete object, gives exactly the objects complete before the cut, in
\* order, and nothing for the incomplete one (one complete object and a cut
\* second one give one entry); cut inside its first object it gives an error.
C14_CutAfterComplete ==
    (hpc = "extracted" /\ CutInObject(arg) /\ PlainObjects(mode, CompleteObjects(arg.body))) =>
        LET objs == CompleteObjects(arg.body)
        IN IF objs # <<>>
              THEN ret.ok /\ ret.v = objs /\ (Len(objs) = 1 => Len(ret.v) = 1)
              ELSE ~ret.ok

\* C14 witness: one complete object and a cut second one gave one entry
C14_Witness ==
    /\ hpc = "extracted"
    /\ CutInObject(arg)
    /\ Len(CompleteObjects(arg.body)) = 1
    /\ ret.ok
    /\ ret.v = CompleteObjects(arg.body)


\* a fenced block that holds one complete object and no '[' or ']'
BareObject(content) ==
    /\ content.fence = "closed"
    /\ Len(content.body) = 1
    /\ content.body[1].t = "obj"

\* C15: a fenced block holding one complete bare object with all required
\* fields is wrapped in an array and extracted as a list of exactly that one
\* entry.
C15_BareObjectWrapped ==
    (hpc = "extracted" /\ BareObject(arg) /\ PlainObjects(mode, CompleteObjects(arg.body))) =>
        /\ ret.ok
        /\ ret.v = CompleteObjects(arg.body)


\* the first json.loads of the call on arg succeeds
FirstParseOk == JsonLoads(PreparedText(mode, arg)).ok

\* the json.loads after the repair pass succeeds
SecondParseOk == JsonLoads(AggressiveRepair(PreparedText(mode, arg))).ok

\* C16: for one reply safe_extract_json parses at most twice: a first parse
\* that succeeds is the only one; after a first parse that fails come one
\* repair of the timestamps that lack their closing quote and exactly one
\* more parse, and the extraction fails when that one fails too.
C16_ParseAtMostTwice ==
    (hpc = "extracted" /\ arg.fence # "none") =>
        /\ ret.parses \in {1, 2}
        /\ FirstParseOk => ret.parses = 1
        /\ ~FirstParseOk => ret.parses = 2
        /\ (~FirstParseOk /\ ~SecondParseOk) => ~ret.ok
        /\ (~FirstParseOk /\ SecondParseOk /\ PlainObjects(mode, CompleteObjects(AggressiveRepair(arg.body))))
              => (ret.ok /\ ret.v = CompleteObjects(AggressiveRepair(arg.body)))


\* the objects json.loads gave for arg (after the repair, in the module that
\* has one)
ParsedObjects ==
    LoadsWithRepair(mode, PreparedText(mode, arg), JsonLoads(PreparedText(mode, arg))).res.v

\* the fields every entry of the mode carries once it is returned
ReturnedFields(md) == IF md = "word" THEN {"start", "end", "word"} ELSE PhraseFields

\* C17: an object that lacks a required field of its mode is dropped and does
\* not fail the extraction: with at least one object of the reply valid the
\* extractor returns, every returned entry has all required fields and comes
\* from a valid object, and every valid object is in the result.
C17_InvalidDropped ==
    (hpc = "extracted" /\ arg.fence # "none" /\ (FirstParseOk \/ (ret.parses = 2 /\ SecondParseOk))) =>
        LET valid == {k \in 1..Len(ParsedObjects) : HasRequired(mode, ParsedObjects[k])}
        IN /\ valid # {} => ret.ok
           /\ ret.ok =>
                /\ \A j \in 1..Len(ret.v) :
                      /\ ReturnedFields(mode) \subseteq ret.v[j].has
                      /\ \E k \in valid : KeyOf(ParsedObjects[k]) = KeyOf(ret.v[j])
                /\ \A k \in valid : \E j \in 1..Len(ret.v) : KeyOf(ParsedObjects[k]) = KeyOf(ret.v[j])
                /\ Len(ret.v) <= Cardinality(valid)

\* C17 witness: a reply of two objects, the first without its end, the second
\* valid, extracted as the second alone
C17_Witness ==
    /\ hpc = "extracted"
    /\ FirstParseOk
    /\ Len(ParsedObjects) = 2
    /\ "end" \notin ParsedObjects[1].has
    /\ HasRequired(mode, ParsedObjects[2])
    /\ ret.ok
    /\ ret.v = <<ParsedObjects[2]>>


\* C18: safe_extract_json never returns an empty list: a list it returns has
\* at least one entry, and a reply that parses to an array none of whose
\* objects passes the validation (the empty array among them) fails with an
\* error.
C18_NeverEmpty ==
    hpc = "extracted" =>
        /\ ret.ok => Len(ret.v) >= 1
        /\ (/\ arg.fence # "none"
            /\ (FirstParseOk \/ (ret.parses = 2 /\ SecondParseOk))
            /\ \A k \in 1..Len(ParsedObjects) : ~HasRequired(mode, ParsedObjects[k]))
              => (~ret.ok /\ ret.err = "No valid items found in JSON data")

\* C18 witness: the reply "[]" in a closed fence fails for want of valid items
C18_Witness ==
    /\ hpc = "extracted"
    /\ arg = Reply("closed", <<Tok("["), Tok("]")>>)
    /\ ~ret.ok
    /\ ret.err = "No valid items found in JSON data"


----------------------------------------------------------------------------
(* The timestamp codec on its own: seconds formatted and parsed back *)

\* the times drawn, in ms: the first MaxMillis ms after the start of a
\* second, at the start of the recording, around a minute and an hour and
\* at the end of the day
CodecMillis ==
    {sec * 1000 + ms : sec \in {0, 1, 59, 3599, 86399}, ms \in 0..MaxMillis}

InitCodec ==
    /\ mode \in Modes
    /\ RetryIdle
    /\ OrchIdle
    /\ hpc = "format"
    /\ arg \in CodecMillis
    /\ ret = NoneVal

\* seconds_to_timestamp(x) of x = arg / 1000.0
CallFormat ==
    /\ hpc = "format"
    /\ ret' = seconds_to_timestamp(mode, DDivInt(arg, 1000))
    /\ hpc' = "formatted"
    /\ UNCHANGED <<mode, retryVars, orchVars, arg>>

\* timestamp_to_seconds of the text just formatted
CallParse ==
    /\ hpc = "formatted"
    /\ ret' = timestamp_to_seconds(mode, ret)
    /\ hpc' = "parsed_back"
    /\ UNCHANGED <<mode, retryVars, orchVars, arg>>

NextCodec == CallFormat \/ CallParse

SpecCodec == InitCodec /\ [][NextCodec]_vars

\* C19: in each module timestamp_to_seconds(seconds_to_timestamp(x)) is x to
\* the millisecond, for x a whole number of milliseconds in [0, 86400) s.
C19_RoundTrip ==
    hpc = "parsed_back" => (ret.ok /\ DRound3(ret.v) = arg)


----------------------------------------------------------------------------
(* timestamp_to_seconds on its own, over texts of two, three and four fields *)

\* the texts drawn: MM:SS.mmm, H:MM:SS.mmm, HH:MM:SS and HH:MM:SS:mmm
ParseInputs ==
    LET hours == {0, 1, 23}
        minutes == {0, 1, 59}
        seconds == {0, 5, 59}
        millis == {0, 5, 250, 999}
    IN {<<IntField(m), DecField(s, ms)>> : m \in minutes, s \in seconds, ms \in millis}
       \cup {<<IntField(h), IntField(m), DecField(s, ms)>> :
                h \in hours, m \in minutes, s \in seconds, ms \in millis}
       \cup {<<IntField(h), IntField(m), IntField(s)>> :
                h \in hours, m \in minutes, s \in seconds}
       \cup {<<IntField(h), IntField(m), IntField(s), IntField(ms)>> :
                h \in hours, m \in minutes, s \in seconds, ms \in millis}

\* texts that are no timestamp: one field, five fields, a field that is not
\* a number at each place of each schema, a fraction where int() reads, and
\* "nan" at each place
MalformedInputs ==
    LET ok == IntField(1)
        dec == DecField(5, 250)
        bad == {[i |-> -1, fd |-> 0, f |-> 0], NanField}
    IN {<<ok>>, <<dec>>, <<ok, ok, ok, ok, dec>>, <<ok, ok, ok, ok, ok>>}
       \cup UNION {{[ts EXCEPT ![k] = b] : k \in 1..Len(ts), b \in bad} :
                ts \in {<<ok, dec>>, <<ok, ok, dec>>, <<ok, ok, ok>>, <<ok, ok, ok, ok>>}}
       \cup {<<dec, dec>>, <<ok, dec, dec>>, <<ok, ok, ok, dec>>}

InitParse ==
    /\ mode \in Modes
    /\ RetryIdle
    /\ OrchIdle
    /\ hpc = "parse"
    /\ arg \in ParseInputs \cup MalformedInputs
    /\ ret = NoneVal

\* timestamp_to_seconds(entry['start'])
CallTimestampToSeconds ==
    /\ hpc = "parse"
    /\ ret' = timestamp_to_seconds(mode, arg)
    /\ hpc' = "parse_done"
    /\ UNCHANGED <<mode, retryVars, orchVars, arg>>

\* merge_json_with_offset of a results dict whose chunk 1 holds one entry
\* with the text as its start and its end
CallMergeOfEntry ==
    /\ hpc = "parse_done"
    /\ ret' = merge_json_with_offset(mode, <<<<1, <<MkItem(mode, arg, arg, <<"a">>, FALSE)>>>>>>,
                                     AUDIO_CHUNKING_OFFSET)
    /\ hpc' = "merged_entry"
    /\ UNCHANGED <<mode, retryVars, orchVars, arg>>

NextParse == CallTimestampToSeconds \/ CallMergeOfEntry

SpecParse == InitParse /\ [][NextParse]_vars

\* the time in ms a text denotes when its fields are read by their number:
\* two as minutes and seconds, three as hours, minutes and seconds (with or
\* without a fraction), four as hours, minutes, seconds and milliseconds
FieldsMillis(ts) ==
    IF Len(ts) = 2 THEN ts[1].i * 60000 + ts[2].i * 1000 + ts[2].f
    ELSE IF Len(ts) = 3 THEN ts[1].i * 3600000 + ts[2].i * 60000 + ts[3].i * 1000 + ts[3].f
    ELSE ts[1].i * 3600000 + ts[2].i * 60000 + ts[3].i * 1000 + ts[4].i

\* C20: timestamp_to_seconds reads a text by the number of its fields (2:
\* MM:SS.mmm, 3 with '.': H:MM:SS.mmm, 3 without: HH:MM:SS, 4: HH:MM:SS:mmm
\* with the fourth field as milliseconds) and returns
\* hours*3600 + minutes*60 + seconds (+ milliseconds/1000).
C20_ParseByFieldCount ==
    (hpc = "parse_done" /\ arg \in ParseInputs) =>
        (ret.ok /\ DRound3(ret.v) = FieldsMillis(arg))


\* a text with a number of fields no schema has, or with a field that is not
\* a number
MalformedText(ts) ==
    \/ Len(ts) = 1
    \/ Len(ts) >= 5
    \/ \E k \in 1..Len(ts) : ts[k].i < 0

\* C21: timestamp_to_seconds raises, and returns no number, for every text of
\* one field, of five or more fields, or with a field that is not a number;
\* merge_json_with_offset of a dict that holds such a text raises too and
\* returns no list.
C21_MalformedRaises ==
    (hpc \in {"parse_done", "merged_entry"} /\ MalformedText(arg)) => ~ret.ok


----------------------------------------------------------------------------
(* Further claims on merge_json_with_offset, under SpecMerge *)

\* the starts of a chunk's entries do not decrease and lie in [0, offset)
ChunkInOrder(json_array) ==
    /\ \A k \in 1..Len(json_array) :
          /\ 0 <= TsMillis(json_array[k].start)
          /\ TsMillis(json_array[k].start) < AUDIO_CHUNKING_OFFSET * 1000
    /\ \A k \in 1..(Len(json_array) - 1) :
          TsMillis(json_array[k].start) <= TsMillis(json_array[k + 1].start)

\* C22: when every chunk's entries are in non-decreasing start order with
\* starts in [0, chunk offset), the starts of the merged list do not decrease
\* and the list has as many entries as the chunks together; the three chunks
\* of two entries of a 620 s audio give 6 entries with starts in [0, 620).
C22_MergedStartsAscend ==
    (hpc = "merged" /\ \A c \in 1..Len(arg) : ChunkInOrder(arg[c][2])) =>
        /\ ret.ok
        /\ Len(ret.v) = Cardinality(EntryPositions(arg))
        /\ \A k \in 1..(Len(ret.v) - 1) :
              TsMillis(ret.v[k].start) <= TsMillis(ret.v[k + 1].start)
        /\ arg \in ResultsOf620(mode) =>
              /\ Len(ret.v) = 6
              /\ \A k \in 1..6 : /\ 0 <= TsMillis(ret.v[k].start)
                                 /\ TsMillis(ret.v[k].start) < 620 * 1000

\* C22 witness: the three chunks of the 620 s audio, put into the dict in
\* reverse order, merged into six entries, the last one from chunk 2
C22_Witness ==
    /\ hpc = "merged"
    /\ arg \in ResultsOf620(mode)
    /\ arg[1][1] = 2
    /\ ret.ok
    /\ Len(ret.v) = 6
    /\ ret.v[6].word = ChunksOf620(mode)[3][2].word
    /\ ret.v[6].text = ChunksOf620(mode)[3][2].text
    /\ TsMillis(ret.v[5].start) = 600 * 1000


----------------------------------------------------------------------------
(* Further claims on the merged timeline, under Spec *)

\* the entries of the chunks from i on with their times as positions in the
\* source audio: the chunk-local time plus the place where split_audio cut
\* chunk i
RECURSIVE SourcePositionsFrom(_)
SourcePositionsFrom(i) ==
    IF i \notin DOMAIN fut THEN <<>>
    ELSE [k \in 1..Len(fut[i].val.val) |-> Timed(fut[i].val.val[k], chunks_dict[i].start_ms)]
         \o SourcePositionsFrom(i + 1)

\* C23: the merged start and end of every entry of chunk i are its position
\* in the source audio: the chunk-local time plus the start of chunk i as
\* split_audio cut it.
C23_PositionInSource ==
    (mpc = "done" /\ DOMAIN fut # {} /\ outcome.kind = "returned") =>
        [k \in 1..Len(outcome.val) |-> Timed(outcome.val[k], 0)] = SourcePositionsFrom(0)


\* C24: no two entries of the timeline the orchestrator returns, from one
\* chunk or from several, denote the same start time and the same end time.
C24_NoSameTimes ==
    (mpc = "done" /\ outcome.kind = "returned") =>
        \A j, k \in 1..Len(outcome.val) :
            (/\ TsMillis(outcome.val[j].start) = TsMillis(outcome.val[k].start)
             /\ TsMillis(outcome.val[j].end) = TsMillis(outcome.val[k].end)) => j = k


----------------------------------------------------------------------------
(* Further claims on transcribe_chunks, under Spec *)

\* the keys of the results dict
ResultKeys == {results[k][1] : k \in 1..Len(results)}

\* the chunks whose transcribe_chunk has been started
StartedChunks == {i \in DOMAIN fut : fut[i].state \in {"running", "finished"}}

\* C25, in every state of the splitting path: as many runs were started as
\* chunks are running or finished, the results dict holds each key once and
\* only keys of chunks that were yielded with a result, and when the merger
\* is called the keys are the chunk indices of split_audio, each run once.
C25_KeysAreChunks ==
    DOMAIN fut # {} =>
        /\ nstarted = Cardinality(StartedChunks)
        /\ Cardinality(ResultKeys) = Len(results)
        /\ ResultKeys = {i \in yielded : fut[i].val.kind = "ok"}
        /\ (mpc = "merge" \/ merges > 0) =>
              /\ ResultKeys = DOMAIN split_audio(audio_duration_ms)
              /\ StartedChunks = DOMAIN split_audio(audio_duration_ms)
              /\ nstarted = Cardinality(DOMAIN split_audio(audio_duration_ms))

\* C25, in every step: a chunk that was started is not started again, and
\* the results dict changes only by one new key, the index of a chunk not
\* written before, with that chunk's own result.
C25_OnceStep ==
    /\ \A i \in DOMAIN fut :
          /\ (fut[i].state = "finished" => fut'[i] = fut[i])
          /\ (fut[i].state = "running" => fut'[i].state \in {"running", "finished"})
          /\ (fut[i].state # fut'[i].state /\ fut'[i].state = "running") =>
                (fut[i].state = "pending" /\ nstarted' = nstarted + 1 /\ cur' = i)
    /\ results' # results =>
          \E i \in DOMAIN fut :
              /\ i \notin ResultKeys
              /\ fut[i].val.kind = "ok"
              /\ results' = Append(results, <<i, fut[i].val.val>>)

\* C25: every chunk index of split_audio goes to exactly one run of
\* transcribe_chunk, and its result is written into the results dict exactly
\* once, under its own index; when merge_json_with_offset is called the keys
\* of the dict are the chunk indices of split_audio.
C25_EachChunkOnce == [](C25_KeysAreChunks) /\ [][C25_OnceStep]_vars

\* C25 witness: both chunks of an audio ran and were written, chunk 1 first,
\* and the merger is about to be called
C25_Witness ==
    /\ mpc = "merge"
    /\ DOMAIN chunks_dict = {0, 1}
    /\ nstarted = 2
    /\ Len(results) = 2
    /\ results[1][1] = 1
    /\ results[1][2] = fut[1].val.val
    /\ results[2][2] = fut[0].val.val


\* the chunks whose transcribe_chunk is executing
RunningChunks == {i \in DOMAIN fut : fut[i].state = "running"}

\* C26, in every state: at most one chunk is executing, and the calls, sleeps
\* and extraction under way are those of that chunk.
C26_OneRunning ==
    DOMAIN fut # {} =>
        /\ Cardinality(RunningChunks) <= 1
        /\ rpc # "idle" => RunningChunks = {cur}
        /\ rpc = "idle" => RunningChunks = {}

\* C26, in every step: a chunk starts only when no chunk is executing and
\* every chunk submitted before it has finished.
C26_StartAfterFinish ==
    \A i \in DOMAIN fut :
        (fut[i].state # "running" /\ fut'[i].state = "running") =>
            /\ RunningChunks = {}
            /\ rpc = "idle"
            /\ \A j \in DOMAIN fut : j < i => fut[j].state = "finished"

----------------------------------------------------------------------------
(* The order of entries, under SpecExtract *)

\* the place in the parsed array of the first valid object with the times of
\* an entry
FirstValidWith(entry) ==
    CHOOSE k \in 1..Len(ParsedObjects) :
        /\ HasRequired(mode, ParsedObjects[k])
        /\ KeyOf(ParsedObjects[k]) = KeyOf(entry)
        /\ \A j \in 1..(k - 1) :
              ~(HasRequired(mode, ParsedObjects[j]) /\ KeyOf(ParsedObjects[j]) = KeyOf(entry))

\* C27: safe_extract_json returns its entries in the order of their objects
\* in the reply, an entry that stands for duplicates at the place of the
\* first of them, and merge_json_with_offset keeps the order of a chunk's
\* entries.
C27_OrderKept ==
    /\ (hpc = "extracted" /\ ret.ok) =>
          \A j \in 1..Len(ret.v) :
              /\ \E k \in 1..Len(ParsedObjects) :
                    HasRequired(mode, ParsedObjects[k]) /\ KeyOf(ParsedObjects[k]) = KeyOf(ret.v[j])
              /\ j > 1 => FirstValidWith(ret.v[j - 1]) < FirstValidWith(ret.v[j])
    /\ hpc = "extracted_merged" =>
          /\ ret.merged.ok
          /\ Len(ret.merged.v) = Len(ret.extracted)
          /\ \A k \in 1..Len(ret.extracted) :
                Timed(ret.merged.v[k], 0) = Timed(ret.extracted[k], AUDIO_CHUNKING_OFFSET * 1000)

\* C27 witness: a reply of two objects with different times, the later time
\* first, extracted and merged in the order of the reply
C27_Witness ==
    /\ hpc = "extracted_merged"
    /\ Len(ret.extracted) = 2
    /\ TsMillis(ret.extracted[1].start) > TsMillis(ret.extracted[2].start)
    /\ Len(ret.merged.v) = 2
    /\ TsMillis(ret.merged.v[1].start) > TsMillis(ret.merged.v[2].start)


----------------------------------------------------------------------------
(* Further claims on retry_with_backoff, under SpecRetry *)

\* C28: for every max_retries, retry_with_backoff returns to its caller only
\* after a call of func that succeeded, with the value of that call, the
\* first to succeed: the k-th call, after k - 1 failed calls and k - 1 sleeps.
C28_ReturnsFirstSuccess ==
    rpc = "returned" =>
        /\ ncalls >= 1
        /\ rres.kind = "ok"
        /\ rres.val \in ChunkReplies(mode)
        /\ nsleeps = ncalls - 1
        /\ attempt = ncalls - 1


----------------------------------------------------------------------------
(* Termination of the transcription, under SpecLive *)

\* the number of chunks of the audio: 1 on the single-chunk path
NumChunks ==
    IF IsSingleChunk(audio_duration_ms) THEN 1
    ELSE Cardinality(DOMAIN split_audio(audio_duration_ms))

\* C29, in every state: the run of a chunk has made at most max_retries
\* remote calls, and there have been at most as many runs as chunks.
C29_CallsBounded ==
    /\ ncalls <= DefaultMaxRetries
    /\ max_retries = DefaultMaxRetries
    /\ nstarted <= NumChunks

\* C29, in every step: a remote call is made by the run under way, the only
\* one, which started with no call made.
C29_CallStep ==
    /\ ncalls' > ncalls => (ncalls' = ncalls + 1 /\ rpc = "call" /\ nstarted' = nstarted)
    /\ nstarted' # nstarted => (nstarted' = nstarted + 1 /\ ncalls' = 0)

\* C29: with every remote call returning or raising in the end, the
\* transcription of n chunks ends: it returns a timeline or raises; each of
\* its at most n runs makes at most max_retries remote calls, n * max_retries
\* in total.
C29_Terminates ==
    /\ <>(mpc = "done" /\ outcome.kind \in {"returned", "raised"})
    /\ [](C29_CallsBounded)
    /\ [][C29_CallStep]_vars

\* C29 witness: a transcription of two chunks has ended by raising, after
\* the second run made all its five calls
C29_Witness ==
    /\ mpc = "done"
    /\ outcome.kind = "raised"
    /\ NumChunks = 2
    /\ nstarted = 2
    /\ ncalls = DefaultMaxRetries

----------------------------------------------------------------------------
(* A failed chunk and the chunks queued behind it *)

\* C30, in every state: while the pool is being left with a chunk's
\* exception, the caller has nothing yet; once the exception has reached the
\* caller, every submitted chunk has run to its end, and the caller has the
\* exception and no timeline: nothing was merged.
C30_State ==
    /\ mpc = "shutdown" => (exc.kind = "err" /\ outcome = NoneVal)
    /\ (mpc = "done" /\ exc # NoneVal) =>
          /\ \A i \in DOMAIN fut : fut[i].state = "finished"
          /\ outcome = [kind |-> "raised", val |-> exc.val]
          /\ merges = 0

\* C30, in every step taken after the failure was met: a queued chunk stays
\* queued or starts, with the retry loop entered afresh; a run ends only by
\* a reply or by the last of its max_retries calls failing; the results dict,
\* the exception and the merge count stay as they are.
C30_Step ==
    mpc = "shutdown" =>
        /\ \A i \in DOMAIN fut :
              /\ fut[i].state = "pending" => fut'[i].state \in {"pending", "running"}
              /\ (fut[i].state = "pending" /\ fut'[i].state = "running") =>
                    /\ rpc' = "call"
                    /\ attempt' = 0
                    /\ ncalls' = 0
                    /\ nsleeps' = 0
                    /\ max_retries' = DefaultMaxRetries
              /\ (fut[i].state = "running" /\ fut'[i].state = "finished") =>
                    \/ rpc = "returned"
                    \/ (rpc = "raised" /\ ncalls = DefaultMaxRetries)
        /\ results' = results
        /\ exc' = exc
        /\ merges' = merges
        /\ mpc' \in {"shutdown", "done"}

\* C30: when a chunk's pipeline fails with chunks queued behind it, the
\* queued chunks are not cancelled: each runs to its end with its own retry
\* budget before the failure reaches the caller, and what they returned is
\* dropped.
C30_QueuedStillRun == [](C30_State) /\ [][C30_Step]_vars

\* C30 witness: chunk 0 failed and its exception reached the caller after
\* chunk 1, started while the pool was being left, made all five calls and
\* returned entries, which the caller does not get
C30_Witness ==
    /\ mpc = "done"
    /\ DOMAIN fut = {0, 1}
    /\ fut[0].val.kind = "err"
    /\ exc = fut[0].val
    /\ results = <<>>
    /\ fut[1].state = "finished"
    /\ fut[1].val.kind = "ok"
    /\ fut[1].val.val # <<>>
    /\ cur = 1
    /\ ncalls = DefaultMaxRetries
    /\ outcome.kind = "raised"

====
